---- MODULE Spec2Model ----
(***************************************************************************)
(* Model of the analysis core of ai-paper-analyzer:                        *)
(*   src/src/core/analyzer.py  PaperAnalyzer.analyze_batch, analyze_single *)
(*   and the Result Store it maintains ({date}_report.json);               *)
(*   src/src/core/cleaner.py   DataCleaner.clean and what it calls;        *)
(*   src/run_pipeline.py       PipelineRunner, with send_feishu.py.        *)
(* Spec: analyze_batch, run twice; FaultSpec: analyze_batch on a file      *)
(* system that may fail; SingleSpec: one call of analyze_single;           *)
(* CleanSpec: one call of DataCleaner.clean; ConstructSpec: an analyzer    *)
(* with its batches, or a cleaner with its clean(date); PipelineSpec: a    *)
(* PipelineRunner and the calls of run_pipeline made on it.                *)
(* A text is a sequence of one-character strings; the Chinese literals of  *)
(* the source are spelled in pinyin syllables.                             *)
(***************************************************************************)
EXTENDS Integers, Sequences, FiniteSets, TLC

VARIABLES
    use_ai,           \* self.use_ai
    ai_client,        \* self.ai_client: "none" or "client"
    silent,           \* analyze_batch(..., silent)
    date,             \* analyze_batch(..., date): "" when no date is given
    papers,           \* analyze_batch(papers, ...)
    store,            \* content of reports/{date}_report.json (a JSON array)
    run,              \* "first" or "second" call of analyze_batch on these inputs
    pc,               \* position of the process
    i,                \* index (1-based) of the paper the for-loop is at
    attempt,          \* analyze_single: attempt of range(max_retries)
    call,             \* the submitted ai_client.chat call: "none", "running", "late", "hung"
    progress_stop,    \* the status display's stop event: "none", "clear", "set"
    existing_ids,     \* analyze_batch: existing_ids
    processed_count, success_count, fail_count, skip_count,
    results,          \* analyze_batch: results
    outcome,          \* how analyze_batch ended: "none", "returned", "raised"
    \* history of the run, read only by the properties
    log,              \* per visited paper: what happened to it
    single_calls,     \* indices handed to analyze_single, in order
    chat_calls,       \* assistant calls issued for the paper being analysed
    start_store,      \* the store when this call of analyze_batch started
    writes,           \* entries written by completed saves of this run, in order
    prev,             \* summary of the first call, once the second has started
    in_flight,        \* ai_client.chat calls that have started and not ended
    faults,           \* whether reads and writes of the store file may fail
    \* one call of analyze_single
    s_paper,          \* analyze_single(paper, ...)
    s_enabled,        \* self.use_ai and self.ai_client
    s_response,       \* the non-empty response the assistant gives, as lines
    s_outcome,        \* "pending", "off", or how the call ended: "result", "none", "raised"
    s_result,         \* the AnalysisResult returned when s_outcome = "result"
    \* DataCleaner (src/src/core/cleaner.py)
    c_use_ai,         \* self.use_ai and self.ai_client, after construction
    c_date,           \* clean(date)
    metadata,         \* the file metadata/{c_date}.json
    cleaned,          \* the files cleaned/{date}_clean.json, by date
    c_pc,             \* "off", "idle", or "done" once clean(date) has ended
    c_return,         \* what clean(date) returned: "none", "true", "false", "raised"
    c_ai,             \* the outcome of the assistant call of _clean_with_ai, if any
    c_before,         \* history: the cleaned files when clean(date) was called
    c_silent,         \* clean(date, silent)
    c_progress_stop,  \* the stop event of _clean_with_ai's display: "none", "clear", "set"
    \* PipelineRunner (src/run_pipeline.py)
    FEISHU_WEBHOOK,   \* whether the environment gives send_feishu a webhook
    success_steps,    \* self.success_steps
    failed_steps,     \* self.failed_steps
    p_pc,             \* "off", "idle", "basic", "advanced", "summary", "returned"
    p_date, p_rage_mode, p_silent,   \* run_pipeline(date, rage_mode, silent)
    basic_success,    \* run_pipeline: "unset", "true", "false"
    advanced_success, \* run_pipeline: "unset", "true", "false"
    p_return,         \* what run_pipeline returned: "none", "true", "false"
    \* history of the runner, read only by the properties
    p_calls,          \* calls of run_pipeline made on this runner
    p_commands,       \* commands run by the runner, with the call and how each ended
    p_summaries,      \* the status of each print_summary of this call
    p_notifications,  \* the calls of send_feishu_notification of this call
    client_failed     \* history: create_retryable_client raised in the constructor

vars == <<use_ai, ai_client, silent, date, papers, store, run, pc, i, attempt, call,
          progress_stop, existing_ids, processed_count, success_count, fail_count,
          skip_count, results, outcome, log, single_calls, chat_calls, start_store,
          writes, prev, in_flight, faults,
          s_paper, s_enabled, s_response, s_outcome, s_result,
          c_use_ai, c_date, metadata, cleaned, c_pc, c_return, c_ai, c_before,
          c_silent, c_progress_stop, client_failed,
          FEISHU_WEBHOOK, success_steps, failed_steps, p_pc, p_date, p_rage_mode, p_silent,
          basic_success, advanced_success, p_return, p_calls, p_commands, p_summaries,
          p_notifications>>

single_vars == <<s_paper, s_enabled, s_response, s_outcome, s_result>>

clean_vars == <<c_use_ai, c_date, metadata, cleaned, c_pc, c_return, c_ai, c_before,
                c_silent, c_progress_stop>>

pipeline_vars == <<FEISHU_WEBHOOK, success_steps, failed_steps, p_pc, p_date, p_rage_mode,
                   p_silent, basic_success, advanced_success, p_return, p_calls,
                   p_commands, p_summaries, p_notifications>>

----------------------------------------------------------------------------
(* Bounds of the model *)

MaxPapers == 2

----------------------------------------------------------------------------
(* Literals of the source *)

ZAN_WU == <<"zan", "wu">>                              \* '暂无'
WU_ZHAIYAO_XINXI == <<"wu", "zhai", "yao", "xin", "xi">>  \* '无摘要信息'
Ellipsis == <<".", ".", ".">>
SummaryLimit == 200
ABSENT == "<absent>"                                   \* a key a dict does not have

----------------------------------------------------------------------------
(* str.strip() *)

IsSpace(c) == c \in {" ", "\n", "\t"}

RECURSIVE LStrip(_)
LStrip(s) == IF s # <<>> /\ IsSpace(Head(s)) THEN LStrip(Tail(s)) ELSE s

RECURSIVE RStrip(_)
RStrip(s) ==
    IF s # <<>> /\ IsSpace(s[Len(s)]) THEN RStrip(SubSeq(s, 1, Len(s) - 1)) ELSE s

Strip(s) == RStrip(LStrip(s))

----------------------------------------------------------------------------
(* _format_publish_date (lines 501-538) *)

IsDigit(c) == c \in {"0", "1", "2", "3", "4", "5", "6", "7", "8", "9"}

\* re.search(r'(\d{4}-\d{2}-\d{2})', s) matches at position k
MatchesAt(s, k) ==
    /\ k + 9 <= Len(s)
    /\ \A j \in {0, 1, 2, 3, 5, 6, 8, 9} : IsDigit(s[k + j])
    /\ s[k + 4] = "-" /\ s[k + 7] = "-"

CountOf(s, c) == Cardinality({k \in 1..Len(s) : s[k] = c})

FormatPublishDate(date_str) ==
    IF date_str = <<>> \/ date_str = ZAN_WU THEN ZAN_WU
    ELSE IF \E k \in 1..Len(date_str) : date_str[k] = "T"
    THEN LET t == CHOOSE n \in 1..Len(date_str) :
                     /\ date_str[n] = "T"
                     /\ \A m \in 1..(n - 1) : date_str[m] # "T"
         IN  SubSeq(date_str, 1, t - 1)
    ELSE IF Len(date_str) = 10 /\ CountOf(date_str, "-") = 2 THEN date_str
    ELSE IF \E k \in 1..Len(date_str) : MatchesAt(date_str, k)
    THEN LET k == CHOOSE n \in 1..Len(date_str) :
                     /\ MatchesAt(date_str, n)
                     /\ \A m \in 1..(n - 1) : ~MatchesAt(date_str, m)
         IN  SubSeq(date_str, k, k + 9)
    ELSE date_str

DateIso == <<"2", "0", "2", "5", "-", "0", "7", "-", "3", "1", "T", "1", "7", ":", "0", "0", ":", "3", "0", ".", "0", "0", "0", "Z">>
DatePlain == <<"2", "0", "2", "5", "-", "0", "7", "-", "3", "1">>
DateEmbedded == <<"o", "n", " ", "2", "0", "2", "5", "-", "0", "8", "-", "0", "2", ",", " ", "2", "0", "2", "5", "-", "0", "8", "-", "0", "3">>
DateNoMatch == <<"J", "u", "l", "y", " ", "2", "0", "2", "5">>
DateTenChars == <<"3", "1", "-", "0", "7", "-", "2", "0", "2", "5">>
DateWithT == <<"T", "h", "u", ",", " ", "3", "1", " ", "J", "u", "l", " ", "2", "0", "2", "5">>
DateShort == <<"2", "0", "2", "5", "-", "7", "-", "3", "1">>

DateStrings == {<<>>, ZAN_WU, DateIso, DatePlain, DateEmbedded, DateNoMatch,
                DateTenChars, DateWithT, DateShort}

----------------------------------------------------------------------------
(* analyze_single, the assistant-free path (lines 202-224) *)

\* a variant that truncates without the ellipsis
BasicSummaryZhNoEllipsis(summary) ==
    LET summary_zh == IF Len(summary) > SummaryLimit
                      THEN SubSeq(summary, 1, SummaryLimit)
                      ELSE summary
    IN  IF summary_zh = <<>> \/ summary_zh = ZAN_WU THEN WU_ZHAIYAO_XINXI ELSE summary_zh

\* lines 208-210
BasicSummaryZh(summary) ==
    LET summary_zh == IF Len(summary) > SummaryLimit
                      THEN SubSeq(summary, 1, SummaryLimit) \o Ellipsis
                      ELSE summary
    IN  IF summary_zh = <<>> \/ summary_zh = ZAN_WU THEN WU_ZHAIYAO_XINXI ELSE summary_zh

BasicResult(paper) ==
    [id |-> paper.id,
     title_en |-> paper.title,
     title_zh |-> paper.translation,
     publish_date |-> FormatPublishDate(paper.publish_date),
     summary_en |-> paper.summary,
     summary_zh |-> BasicSummaryZh(paper.summary),
     model_function |-> ZAN_WU]

----------------------------------------------------------------------------
(* _parse_ai_response (lines 455-499). A response is a sequence of lines; a  *)
(* line is its label ("title_zh", "summary_zh", "model_function" for the     *)
(* three prefixes, "other" for any other line) and the text after it.        *)

RECURSIVE ParseLines(_, _)
ParseLines(lines, fields) ==
    IF lines = <<>> THEN fields
    ELSE LET line == Head(lines)
         IN  ParseLines(Tail(lines),
                 IF line.label \in {"title_zh", "summary_zh", "model_function"}
                 THEN [fields EXCEPT ![line.label] = Strip(line.text)]
                 ELSE fields)

ParseAiResponse(response) ==
    LET parsed == ParseLines(response,
                     [title_zh |-> <<>>, summary_zh |-> <<>>, model_function |-> ZAN_WU])
    IN  IF Strip(parsed.model_function) = <<>>
        THEN [parsed EXCEPT !.model_function = ZAN_WU]
        ELSE parsed

----------------------------------------------------------------------------
(* analyze_single, processing of a usable response (lines 315-356) *)

\* a variant without the fallback to the English title
AiTitleZhNoFallback(parsed, paper) == Strip(parsed.title_zh)

AiTitleZh(parsed, paper) ==
    LET title_zh == Strip(parsed.title_zh)
    IN  IF title_zh = <<>> THEN paper.title ELSE title_zh

AiFallbackSummaryZh(summary) ==
    LET summary_zh == IF Len(summary) > SummaryLimit
                      THEN SubSeq(summary, 1, SummaryLimit) \o Ellipsis
                      ELSE summary
    IN  IF summary_zh = <<>> \/ summary_zh = ZAN_WU THEN WU_ZHAIYAO_XINXI ELSE summary_zh

\* TRUE when processing the response raises inside the try of line 316:
\* the summary fallback takes len() of a summary that is None.
ProcessingRaises(parsed, paper) ==
    Strip(parsed.summary_zh) = <<>> /\ paper.summary_null

AiResult(response, paper) ==
    LET parsed == ParseAiResponse(response)
        summary_zh == Strip(parsed.summary_zh)
    IN  [id |-> paper.id,
         title_en |-> paper.title,
         title_zh |-> AiTitleZh(parsed, paper),
         publish_date |-> FormatPublishDate(paper.publish_date),
         summary_en |-> paper.summary,
         summary_zh |-> IF summary_zh = <<>>
                        THEN AiFallbackSummaryZh(paper.summary)
                        ELSE summary_zh,
         model_function |-> parsed.model_function]

\* a variant with one attempt too many
max_retries_plus_one == 3 + 1

max_retries == 3

----------------------------------------------------------------------------
(* The Result Store *)

\* AnalysisResult.to_dict(): the stored dict of a result, keyed by 'id'
to_dict(result) ==
    [paper_id |-> ABSENT, id |-> result.id, paper_url |-> <<>>, data |-> result]

\* AnalysisResult.paper_id
paper_id(result) == result.id

\* _extract_paper_id_from_result (lines 586-606); paper_url is the url split at '/'
ExtractPaperIdFromResult(r) ==
    IF r.paper_id # ABSENT THEN r.paper_id
    ELSE IF r.id # ABSENT THEN r.id
    ELSE IF r.paper_url # <<>> THEN r.paper_url[Len(r.paper_url)]
    ELSE ""

\* FileManager.load_json / save_json on the date's file
load_json(file) == file
save_json(data, file) == data

\* _load_existing_results (lines 540-557)
LoadExistingResults(file, read_ok) ==
    IF read_ok THEN load_json(file) ELSE <<>>

\* a variant that writes the file back without the new entry
SaveWithoutAppend(result, file, read_ok, write_ok) ==
    LET Other(r) == ExtractPaperIdFromResult(r) # paper_id(result)
    IN  IF write_ok THEN save_json(SelectSeq(LoadExistingResults(file, read_ok), Other), file)
        ELSE file

\* a variant that appends without removing the entries of the same id
SaveAppendOnly(result, file, read_ok, write_ok) ==
    IF write_ok
    THEN save_json(Append(LoadExistingResults(file, read_ok), to_dict(result)), file)
    ELSE file

\* _save_single_result (lines 559-584): the new content of the file
SaveSingleResult(result, file, read_ok, write_ok) ==
    LET existing == LoadExistingResults(file, read_ok)
        Other(r) == ExtractPaperIdFromResult(r) # paper_id(result)
        kept == SelectSeq(existing, Other)
    IN  IF write_ok THEN save_json(Append(kept, to_dict(result)), file) ELSE file

StoreIds(file) == {ExtractPaperIdFromResult(file[k]) : k \in 1..Len(file)}

\* a variant that does not load the existing results
ExistingIdsNotLoaded(given, file) == {}

\* analyze_batch, lines 89-98: existing_ids
ExistingIds(given, file) ==
    IF given
    THEN {ExtractPaperIdFromResult(r) : r \in
             {LoadExistingResults(file, TRUE)[k] : k \in 1..Len(LoadExistingResults(file, TRUE))}}
    ELSE {}

----------------------------------------------------------------------------
(* Inputs *)

ShortText == <<"s", "m">>
LongText == [k \in 1..(SummaryLimit + 1) |-> "x"]

PaperA  == [id |-> "a", title |-> <<"A">>, translation |-> <<"A">>,
            summary |-> ShortText, publish_date |-> DateIso,
            summary_null |-> FALSE]
PaperB  == [id |-> "b", title |-> <<"B">>, translation |-> <<"B", "z">>,
            summary |-> LongText, publish_date |-> DatePlain,
            summary_null |-> FALSE]
PaperA2 == [id |-> "a", title |-> <<"A", "2">>, translation |-> <<"A", "2">>,
            summary |-> <<>>, publish_date |-> <<>>,
            summary_null |-> FALSE]
PaperN  == [id |-> "n", title |-> <<"N">>, translation |-> <<"N">>,
            summary |-> <<>>, publish_date |-> DateIso,
            summary_null |-> TRUE]

PaperZ  == [id |-> "z", title |-> <<"Z">>, translation |-> <<"Z">>,
            summary |-> ZAN_WU, publish_date |-> DateNoMatch,
            summary_null |-> FALSE]

PaperPool == {PaperA, PaperB, PaperA2, PaperN, PaperZ}

RECURSIVE SeqsUpTo(_, _)
SeqsUpTo(S, n) ==
    IF n = 0 THEN {<<>>}
    ELSE LET shorter == SeqsUpTo(S, n - 1)
         IN  shorter \cup {Append(s, x) : s \in {t \in shorter : Len(t) = n - 1}, x \in S}

OldResult(id) ==
    [id |-> id, title_en |-> <<"o">>, title_zh |-> <<"o">>,
     publish_date |-> DatePlain, summary_en |-> <<>>,
     summary_zh |-> WU_ZHAIYAO_XINXI, model_function |-> ZAN_WU]

StoredA == to_dict(OldResult("a"))
StoredBLegacy ==
    [paper_id |-> ABSENT, id |-> ABSENT, paper_url |-> <<"arxiv.org", "abs", "b">>,
     data |-> OldResult("b")]
StoredZ == [paper_id |-> "z", id |-> ABSENT, paper_url |-> <<>>, data |-> OldResult("z")]

InitialStores == {<<>>, <<StoredA>>, <<StoredZ, StoredBLegacy>>}

RespFull ==
    << [label |-> "title_zh", text |-> <<" ", "t">>],
       [label |-> "summary_zh", text |-> <<"z">>],
       [label |-> "model_function", text |-> <<"f">>] >>
RespNoLabels == << [label |-> "other", text |-> <<"x">>] >>
RespBlank ==
    << [label |-> "title_zh", text |-> <<" ">>],
       [label |-> "summary_zh", text |-> <<>>],
       [label |-> "model_function", text |-> <<" ">>] >>

UsableResponses == {RespFull, RespNoLabels, RespBlank}

----------------------------------------------------------------------------
(* PaperAnalyzer.__init__ (lines 44-58) *)

\* a variant that leaves use_ai as configured when the client cannot be created
ConstructKeepsUseAi(config_use_ai, client_ok) ==
    [use_ai |-> config_use_ai,
     ai_client |-> IF config_use_ai /\ client_ok THEN "client" ELSE "none"]

ConstructAnalyzer(config_use_ai, client_ok) ==
    [use_ai |-> config_use_ai /\ client_ok,
     ai_client |-> IF config_use_ai /\ client_ok THEN "client" ELSE "none"]

\* DataCleaner.__init__ (cleaner.py, lines 37-49)
ConstructCleaner(config_use_ai, client_ok) ==
    [use_ai |-> config_use_ai /\ client_ok,
     ai_client |-> IF config_use_ai /\ client_ok THEN "client" ELSE "none"]

CleanDates == {"2025-07-31", "2025-08-01"}
NoFile == [exists |-> FALSE, data |-> <<>>]
AbsentMetadata == [kind |-> "absent", data |-> <<>>]

\* no DataCleaner is modelled
CleanOff ==
    /\ c_use_ai = FALSE
    /\ c_date = "2025-07-31"
    /\ metadata = AbsentMetadata
    /\ cleaned = [d \in CleanDates |-> NoFile]
    /\ c_pc = "off"
    /\ c_return = "none"
    /\ c_ai = "none"
    /\ c_before = cleaned
    /\ c_silent = FALSE
    /\ c_progress_stop = "none"

\* no PipelineRunner is modelled
PipelineOff ==
    /\ FEISHU_WEBHOOK = FALSE
    /\ success_steps = <<>> /\ failed_steps = <<>>
    /\ p_pc = "off"
    /\ p_date = "2025-07-31" /\ p_rage_mode = FALSE /\ p_silent = FALSE
    /\ basic_success = "unset" /\ advanced_success = "unset"
    /\ p_return = "none"
    /\ p_calls = 0
    /\ p_commands = <<>> /\ p_summaries = <<>> /\ p_notifications = <<>>

\* no call of analyze_single on its own is modelled
SingleOff ==
    /\ s_paper = PaperA
    /\ s_enabled = FALSE
    /\ s_response = <<>>
    /\ s_outcome = "off"
    /\ s_result = BasicResult(PaperA)

NoPrev == [ended |-> "none", success_count |-> 0, store0_ids |-> {}, succeeded_ids |-> {},
           failed_idx |-> {}]

BatchInit ==
    /\ \E config_use_ai \in BOOLEAN, client_ok \in BOOLEAN :
          LET a == ConstructAnalyzer(config_use_ai, client_ok)
          IN  /\ use_ai = a.use_ai /\ ai_client = a.ai_client
              /\ client_failed = (config_use_ai /\ ~client_ok)
    /\ silent \in BOOLEAN
    /\ date \in {"", "2025-07-31"}
    /\ papers \in SeqsUpTo(PaperPool, MaxPapers)
    /\ store \in IF date = "" THEN {<<>>} ELSE InitialStores
    /\ run = "first"
    /\ pc = "idle"
    /\ i = 1
    /\ attempt = 0
    /\ call = "none"
    /\ progress_stop = "none"
    /\ existing_ids = {}
    /\ processed_count = 0 /\ success_count = 0 /\ fail_count = 0 /\ skip_count = 0
    /\ results = <<>>
    /\ outcome = "none"
    /\ log = <<>>
    /\ single_calls = <<>>
    /\ chat_calls = 0
    /\ start_store = store
    /\ writes = <<>>
    /\ prev = NoPrev
    /\ in_flight = 0
    /\ SingleOff
    /\ CleanOff
    /\ PipelineOff

\* the file system never fails
Init == BatchInit /\ faults = FALSE

\* reads and writes of the store file may fail
FaultInit == BatchInit /\ date # "" /\ faults = TRUE

config == <<use_ai, ai_client, silent, date, papers, faults, client_failed,
            single_vars, clean_vars, pipeline_vars>>

----------------------------------------------------------------------------
(* analyze_batch *)

\* lines 72-104: the empty-input return, the load of the existing ids, the counters
StartBatch ==
    /\ pc = "idle"
    /\ IF papers = <<>>
       THEN /\ pc' = "done"
            /\ outcome' = "returned"
            /\ existing_ids' = {}
       ELSE /\ pc' = "loop"
            /\ outcome' = "none"
            /\ existing_ids' = ExistingIds(date # "", store)
    /\ i' = 1
    /\ attempt' = 0
    /\ processed_count' = 0 /\ success_count' = 0 /\ fail_count' = 0 /\ skip_count' = 0
    /\ results' = <<>>
    /\ log' = <<>>
    /\ single_calls' = <<>>
    /\ chat_calls' = 0
    /\ start_store' = store
    /\ writes' = <<>>
    /\ UNCHANGED <<config, in_flight, store, run, call, progress_stop, prev>>

\* a variant that never skips
ShouldSkipNever(paper) == FALSE

\* line 109
ShouldSkip(paper) == date # "" /\ paper.id \in existing_ids

\* lines 109-113
SkipPaper ==
    /\ pc = "loop"
    /\ i <= Len(papers)
    /\ ShouldSkip(papers[i])
    /\ skip_count' = skip_count + 1
    /\ log' = Append(log, [idx |-> i, kind |-> "skipped", usable |-> FALSE, saved |-> "no"])
    /\ i' = i + 1
    /\ UNCHANGED <<config, in_flight, store, run, pc, attempt, call, progress_stop, existing_ids,
                   processed_count, success_count, fail_count, results, outcome,
                   single_calls, chat_calls, start_store, writes, prev>>

\* a variant in which a failure ends the loop
AfterFailureAborts(k) == Len(papers) + 1

\* the index the for-loop goes to after the paper at index k has failed (lines 149-169)
AfterFailure(k) == k + 1

\* a variant that puts the new result in front
ResultsPrepend(rs, result) == <<result>> \o rs

\* line 140: results.append(result)
ResultsAppend(rs, result) == Append(rs, result)

\* a variant in which a failed write leaves _save_single_result as an exception
SaveFailureEscapes(read_ok, write_ok) == write_ok

\* lines 567-584: the body of _save_single_result is one try block whose handler
\* logs the exception, so neither a failed read nor a failed write leaves it
SaveFailureCaught(read_ok, write_ok) == TRUE

\* lines 133-169: what analyze_batch does with the outcome of analyze_single.
\* kind is "result" (result is the AnalysisResult), "none" or "raised".
\* read_ok, write_ok: whether the read and the write of the store file succeed
FinishPaper(kind, result, usable) ==
    \E read_ok, write_ok \in (IF faults THEN BOOLEAN ELSE {TRUE}) :
       LET saving == kind = "result" /\ date # ""
           kept   == ~saving \/ SaveFailureCaught(read_ok, write_ok)
           saved  == IF ~saving THEN "no"
                     ELSE IF ~write_ok THEN "write_failed"
                     ELSE IF ~read_ok THEN "read_failed"
                     ELSE "yes"
       IN
       /\ log' = Append(log, [idx |-> i, kind |-> IF kept THEN kind ELSE "raised",
                              usable |-> usable, saved |-> saved])
       /\ store' = IF saving THEN SaveSingleResult(result, store, read_ok, write_ok)
                    ELSE store
       /\ writes' = IF saving /\ write_ok THEN Append(writes, to_dict(result))
                     ELSE writes
       /\ IF kind = "result" /\ kept
          THEN /\ results' = ResultsAppend(results, result)
               /\ success_count' = success_count + 1
               /\ fail_count' = fail_count
               /\ i' = i + 1
          ELSE /\ fail_count' = fail_count + 1
               /\ i' = AfterFailure(i)
               /\ UNCHANGED <<results, success_count>>
       /\ pc' = "loop"
       /\ call' = "none"

\* lines 115-131 with the assistant-free path of analyze_single (lines 202-224)
AnalyzeBasic ==
    /\ pc = "loop"
    /\ i <= Len(papers)
    /\ ~ShouldSkip(papers[i])
    /\ ~use_ai \/ ai_client = "none"
    /\ processed_count' = processed_count + 1
    /\ single_calls' = Append(single_calls, i)
    /\ IF papers[i].summary_null
       THEN FinishPaper("raised", BasicResult(papers[i]), FALSE)
       ELSE FinishPaper("result", BasicResult(papers[i]), FALSE)
    /\ UNCHANGED <<config, in_flight, run, attempt, progress_stop, existing_ids, skip_count,
                   outcome, chat_calls, start_store, prev>>

\* lines 115-131 and 226-230: analyze_single enters its retry loop
BeginAnalyze ==
    /\ pc = "loop"
    /\ i <= Len(papers)
    /\ ~ShouldSkip(papers[i])
    /\ use_ai /\ ai_client # "none"
    /\ processed_count' = processed_count + 1
    /\ single_calls' = Append(single_calls, i)
    /\ pc' = "attempt"
    /\ attempt' = 0
    /\ chat_calls' = 0
    /\ UNCHANGED <<config, in_flight, store, run, i, call, progress_stop, existing_ids,
                   success_count, fail_count, skip_count, results, outcome, log,
                   start_store, writes, prev>>

\* lines 231-271: the status display starts, the call is submitted
SubmitCall ==
    /\ pc = "attempt"
    /\ progress_stop' = IF silent THEN progress_stop ELSE "clear"
    /\ call' = "running"
    /\ chat_calls' = chat_calls + 1
    /\ in_flight' = in_flight + 1
    /\ pc' = "waiting"
    /\ UNCHANGED <<config, store, run, i, attempt, existing_ids, processed_count,
                   success_count, fail_count, skip_count, results, outcome, log,
                   single_calls, start_store, writes, prev>>

\* lines 295-302 and 305-313: another attempt, or None after the last one
RetryOrFail ==
    IF attempt < max_retries - 1
    THEN /\ attempt' = attempt + 1
         /\ pc' = "attempt"
         /\ call' = "none"
         /\ UNCHANGED <<store, i, success_count, fail_count, results, log, writes>>
    ELSE /\ FinishPaper("none", BasicResult(papers[i]), FALSE)
         /\ attempt' = attempt

\* a variant in which the event of the display is never set
StopDisplayNever == progress_stop' = progress_stop

\* lines 273-276 and 281-285
StopDisplay == progress_stop' = IF silent THEN progress_stop ELSE "set"

\* lines 271, 281-293, 315-356: the call returns a non-empty response in time
ChatReturns ==
    /\ pc = "waiting"
    /\ \E response \in UsableResponses :
          IF ProcessingRaises(ParseAiResponse(response), papers[i])
          THEN FinishPaper("none", BasicResult(papers[i]), TRUE)
          ELSE FinishPaper("result", AiResult(response, papers[i]), TRUE)
    /\ StopDisplay
    /\ in_flight' = in_flight - 1
    /\ UNCHANGED <<config, run, attempt, existing_ids, processed_count, skip_count, outcome,
                   single_calls, chat_calls, start_store, prev>>

\* lines 271, 281-302: the call returns an empty response in time
ChatReturnsEmpty ==
    /\ pc = "waiting"
    /\ RetryOrFail
    /\ StopDisplay
    /\ in_flight' = in_flight - 1
    /\ UNCHANGED <<config, run, existing_ids, processed_count, skip_count, outcome,
                   single_calls, chat_calls, start_store, prev>>

\* lines 271, 281-285, 304-313: the call raises in time
ChatRaises ==
    /\ pc = "waiting"
    /\ RetryOrFail
    /\ StopDisplay
    /\ in_flight' = in_flight - 1
    /\ UNCHANGED <<config, run, existing_ids, processed_count, skip_count, outcome,
                   single_calls, chat_calls, start_store, prev>>

\* a variant in which leaving the executor does not wait for the worker
ExecutorExitAbandons == FALSE

\* line 268: the executor is a context manager, whose exit is shutdown(wait=True)
ExecutorExitWaits == TRUE

\* lines 268-277: future.result(timeout=90) times out; the raise leaves the with
\* block of the executor, whose exit joins the worker that still runs the call
Deadline ==
    /\ pc = "waiting"
    /\ StopDisplay
    /\ in_flight' = in_flight
    /\ IF ExecutorExitWaits
       THEN /\ \E fate \in {"late", "hung"} : call' = fate
            /\ pc' = "shutdown"
            /\ UNCHANGED <<store, i, attempt, success_count, fail_count, results,
                           log, writes>>
       ELSE RetryOrFail
    /\ UNCHANGED <<config, run, existing_ids, processed_count, skip_count, outcome,
                   single_calls, chat_calls, start_store, prev>>

\* lines 268, 279-285, 304-313: the late call ends, the executor's exit returns and
\* the TimeoutError reaches the retry loop
WorkerFinishes ==
    /\ pc = "shutdown"
    /\ call = "late"
    /\ RetryOrFail
    /\ StopDisplay
    /\ in_flight' = in_flight - 1
    /\ UNCHANGED <<config, run, existing_ids, processed_count, skip_count, outcome,
                   single_calls, chat_calls, start_store, prev>>

\* lines 171-189: the final statistics; line 188 reads actually_processed, which
\* is bound only when not silent (line 177)
EndBatch ==
    /\ pc = "loop"
    /\ i > Len(papers)
    /\ pc' = "done"
    /\ outcome' = IF silent THEN "raised" ELSE "returned"
    /\ UNCHANGED <<config, in_flight, store, run, i, attempt, call, progress_stop, existing_ids,
                   processed_count, success_count, fail_count, skip_count, results,
                   log, single_calls, chat_calls, start_store, writes, prev>>

\* lines 608-625: the report of a date holds the given results and their count
CreateDailyReport(report_date, analysis_results) ==
    [date |-> report_date, total_papers |-> Len(analysis_results),
     analysis_results |-> analysis_results]

\* DailyReport.save_to_file: the file becomes the JSON array of the report's results
SaveToFile(report) ==
    save_json([k \in 1..Len(report.analysis_results) |-> to_dict(report.analysis_results[k])],
              <<>>)

\* lines 627-657, applied to create_daily_report(date, analyze_batch(papers, date)):
\* the path of line 643 is the path of line 92
SaveDailyReport ==
    /\ pc = "done"
    /\ outcome = "returned"
    /\ date # ""
    /\ store' = SaveToFile(CreateDailyReport(date, results))
    /\ pc' = "reported"
    /\ UNCHANGED <<config, in_flight, run, i, attempt, call, progress_stop, existing_ids,
                   processed_count, success_count, fail_count, skip_count, results,
                   outcome, log, single_calls, chat_calls, start_store, writes, prev>>

\* the process is terminated during analyze_batch
Kill ==
    /\ pc \in {"loop", "attempt", "waiting", "shutdown"}
    /\ pc' = "killed"
    /\ i' = 1
    /\ attempt' = 0
    /\ call' = "none"
    /\ progress_stop' = "none"
    /\ existing_ids' = {}
    /\ processed_count' = 0 /\ success_count' = 0 /\ fail_count' = 0 /\ skip_count' = 0
    /\ results' = <<>>
    /\ log' = <<>>
    /\ single_calls' = <<>>
    /\ chat_calls' = 0
    /\ in_flight' = 0
    /\ UNCHANGED <<config, store, run, outcome, start_store, writes, prev>>

\* analyze_batch is called again, by a new process, for the same date and papers
NextRun ==
    /\ pc \in {"done", "killed"}
    /\ run = "first"
    /\ run' = "second"
    /\ prev' = [ended |-> pc, success_count |-> success_count,
                store0_ids |-> StoreIds(start_store),
                succeeded_ids |-> {papers[k].id : k \in {n \in 1..Len(log) : log[n].kind = "result"}},
                failed_idx |-> {n \in 1..Len(log) : log[n].kind \in {"none", "raised"}}]
    /\ pc' = "idle"
    /\ i' = 1
    /\ attempt' = 0
    /\ call' = "none"
    /\ progress_stop' = "none"
    /\ existing_ids' = {}
    /\ processed_count' = 0 /\ success_count' = 0 /\ fail_count' = 0 /\ skip_count' = 0
    /\ results' = <<>>
    /\ outcome' = "none"
    /\ log' = <<>>
    /\ single_calls' = <<>>
    /\ chat_calls' = 0
    /\ writes' = <<>>
    /\ start_store' = store
    /\ in_flight' = 0
    /\ UNCHANGED <<config, store>>

Next ==
    \/ StartBatch
    \/ SkipPaper
    \/ AnalyzeBasic
    \/ BeginAnalyze
    \/ SubmitCall
    \/ ChatReturns
    \/ ChatReturnsEmpty
    \/ ChatRaises
    \/ Deadline
    \/ WorkerFinishes
    \/ EndBatch
    \/ SaveDailyReport
    \/ Kill
    \/ NextRun

Spec == Init /\ [][Next]_vars

\* one call of analyze_batch with a date, on a file system that may fail
FaultNext ==
    \/ StartBatch
    \/ SkipPaper
    \/ AnalyzeBasic
    \/ BeginAnalyze
    \/ SubmitCall
    \/ ChatReturns
    \/ ChatReturnsEmpty
    \/ ChatRaises
    \/ Deadline
    \/ WorkerFinishes
    \/ EndBatch

FaultSpec == FaultInit /\ [][FaultNext]_vars

----------------------------------------------------------------------------
(* analyze_single as a function of the paper and of the assistant's response *)

\* no batch is modelled
BatchOff ==
    /\ use_ai = FALSE /\ ai_client = "none" /\ silent = FALSE /\ date = ""
    /\ papers = <<>> /\ store = <<>> /\ run = "first" /\ pc = "off"
    /\ i = 1 /\ attempt = 0 /\ call = "none" /\ progress_stop = "none"
    /\ existing_ids = {}
    /\ processed_count = 0 /\ success_count = 0 /\ fail_count = 0 /\ skip_count = 0
    /\ results = <<>> /\ outcome = "none" /\ log = <<>> /\ single_calls = <<>>
    /\ chat_calls = 0 /\ start_store = <<>> /\ writes = <<>> /\ prev = NoPrev
    /\ in_flight = 0 /\ faults = FALSE

batch_vars == <<use_ai, ai_client, silent, date, papers, store, run, pc, i, attempt, call,
                progress_stop, existing_ids, processed_count, success_count, fail_count,
                skip_count, results, outcome, log, single_calls, chat_calls, start_store,
                writes, prev, in_flight, faults, client_failed>>

PaperAtLimit == [id |-> "l", title |-> <<"L">>, translation |-> <<"L">>,
                 summary |-> [k \in 1..SummaryLimit |-> "x"], publish_date |-> DatePlain,
                 summary_null |-> FALSE]
PaperLong == [id |-> "g", title |-> <<"G">>, translation |-> <<"G", "z">>,
              summary |-> [k \in 1..500 |-> IF k <= SummaryLimit THEN "x" ELSE "y"],
              publish_date |-> DateIso, summary_null |-> FALSE]

SinglePapers == PaperPool \cup {PaperAtLimit, PaperLong}

RespTitleOnly == << [label |-> "other", text |-> <<>>],
                    [label |-> "title_zh", text |-> <<"t", " ">>] >>
RespSummaryOnly == << [label |-> "summary_zh", text |-> <<"z", "y">>] >>
RespFunctionOnly == << [label |-> "model_function", text |-> <<"f">>],
                       [label |-> "other", text |-> <<"x">>] >>
RespSpaceSummary == << [label |-> "title_zh", text |-> <<"t">>],
                       [label |-> "summary_zh", text |-> <<" ", " ">>] >>

SingleResponses == UsableResponses \cup
                   {RespTitleOnly, RespSummaryOnly, RespFunctionOnly, RespSpaceSummary}

SingleInit ==
    /\ BatchOff
    /\ CleanOff
    /\ PipelineOff
    /\ \E paper \in SinglePapers, publish_date \in DateStrings :
          s_paper = [paper EXCEPT !.publish_date = publish_date]
    /\ \E config_use_ai, client_ok \in BOOLEAN :
          LET a == ConstructAnalyzer(config_use_ai, client_ok)
          IN  /\ s_enabled = (a.use_ai /\ a.ai_client # "none")
              /\ client_failed = (config_use_ai /\ ~client_ok)
    /\ s_response \in IF s_enabled THEN SingleResponses ELSE {<<>>}
    /\ s_outcome = "pending"
    /\ s_result = BasicResult(PaperA)

\* lines 202-224: the assistant is disabled or unavailable
SingleBasic ==
    /\ s_outcome = "pending"
    /\ ~s_enabled
    /\ IF s_paper.summary_null
       THEN s_outcome' = "raised" /\ s_result' = s_result
       ELSE s_outcome' = "result" /\ s_result' = BasicResult(s_paper)
    /\ UNCHANGED <<batch_vars, pipeline_vars, clean_vars, s_paper, s_enabled, s_response>>

\* lines 287-293, 315-356: the assistant has given a non-empty response
SingleWithResponse ==
    /\ s_outcome = "pending"
    /\ s_enabled
    /\ IF ProcessingRaises(ParseAiResponse(s_response), s_paper)
       THEN s_outcome' = "none" /\ s_result' = s_result
       ELSE s_outcome' = "result" /\ s_result' = AiResult(s_response, s_paper)
    /\ UNCHANGED <<batch_vars, pipeline_vars, clean_vars, s_paper, s_enabled, s_response>>

SingleNext == SingleBasic \/ SingleWithResponse

SingleSpec == SingleInit /\ [][SingleNext]_vars

----------------------------------------------------------------------------
(* DataCleaner (src/src/core/cleaner.py).                                   *)
(* A raw record is one element of the metadata array. shape tells whether   *)
(* it is a JSON object; paper tells whether it has a 'paper' key and what   *)
(* is under it; the other fields are those of the dict the extraction reads *)
(* (the value of 'paper', or the record itself). A name is an atom; the     *)
(* joined authors are the sequence of the names and the separators.         *)

MaxRecords == 2

WEIZHI_ZUOZHE == <<"wei", "zhi", "zuo", "zhe">>        \* '未知作者'
ArxivAbs == "https://arxiv.org/abs/"
NULL == "<null>"                                       \* JSON null
NoUrl == <<ABSENT>>                                    \* the dict has no 'url' key

\* title = paper_data.get('title', '').strip().replace('\n', ' ') (line 270)
NormaliseTitle(text) ==
    LET t == Strip(text)
    IN  [k \in 1..Len(t) |-> IF t[k] = "\n" THEN " " ELSE t[k]]

\* lines 277-290: authors_list
RECURSIVE NamesOfObjects(_)
NamesOfObjects(entries) ==
    IF entries = <<>> THEN <<>>
    ELSE LET author == Head(entries)
             rest == NamesOfObjects(Tail(entries))
         IN  IF author.kind = "absent" \/ author.name = "" THEN rest
             ELSE <<author>> \o rest

AuthorsList(authors) ==
    CASE authors.shape = "objects" -> NamesOfObjects(authors.entries)
      [] authors.shape \in {"strings", "string"} -> authors.entries
      [] OTHER -> <<>>

\* ', '.join(authors_list) raises TypeError when an element is not a string
JoinRaises(list) == \E k \in 1..Len(list) : list[k].kind # "str"

RECURSIVE Join(_)
Join(list) ==
    IF list = <<>> THEN <<>>
    ELSE IF Len(list) = 1 THEN <<list[1].name>>
    ELSE <<list[1].name, ", ">> \o Join(Tail(list))

\* a variant without the '未知作者' placeholder
AuthorsStrNoPlaceholder(authors) == Join(AuthorsList(authors))

\* line 292
AuthorsStr(authors) ==
    IF AuthorsList(authors) = <<>> THEN WEIZHI_ZUOZHE ELSE Join(AuthorsList(authors))

\* lines 295-297
PublishDate(item) ==
    IF item.publishedAt # "" THEN item.publishedAt
    ELSE IF item.publishedDate # "" THEN item.publishedDate
    ELSE item.published

\* TRUE when the body of _extract_paper_info raises (lines 267-315): the record
\* or the value of 'paper' is no dict, the title is no string, or a name is none
ExtractionRaises(item) ==
    \/ item.shape # "dict"
    \/ item.paper = "null"
    \/ item.title.kind \in {"null", "number"}
    \/ /\ item.id \notin {ABSENT, "", NULL}
       /\ NormaliseTitle(item.title.text) # <<>>
       /\ AuthorsList(item.authors) # <<>>
       /\ JoinRaises(AuthorsList(item.authors))

\* a variant that keeps a record without a title
ExtractKeepsUntitled(item) ==
    IF ExtractionRaises(item) \/ item.id \in {ABSENT, "", NULL} THEN <<>>
    ELSE << [id |-> item.id,
             title |-> NormaliseTitle(item.title.text),
             translation |-> NormaliseTitle(item.title.text),
             url |-> IF item.url = NoUrl THEN <<ArxivAbs, item.id>> ELSE item.url,
             authors |-> AuthorsStr(item.authors),
             publish_date |-> PublishDate(item),
             summary |-> item.summary,
             model_function |-> <<>>] >>

\* _extract_paper_info (lines 257-319): <<>> for None, else the cleaned item
ExtractPaperInfo(item) ==
    IF ExtractionRaises(item) THEN <<>>
    ELSE LET pid == IF item.id = ABSENT THEN "" ELSE item.id
             title == IF item.title.kind = "absent" THEN <<>>
                      ELSE NormaliseTitle(item.title.text)
         IN  IF pid \in {"", NULL} \/ title = <<>> THEN <<>>
             ELSE << [id |-> pid,
                      title |-> title,
                      translation |-> title,
                      url |-> IF item.url = NoUrl THEN <<ArxivAbs, pid>>
                              ELSE item.url,
                      authors |-> AuthorsStr(item.authors),
                      publish_date |-> PublishDate(item),
                      summary |-> item.summary,
                      model_function |-> <<>>] >>

\* a variant in which the first record that raises ends the loop
RECURSIVE CleanWithRulesStopsAtRaise(_)
CleanWithRulesStopsAtRaise(raw_data) ==
    IF raw_data = <<>> \/ ExtractionRaises(Head(raw_data)) THEN <<>>
    ELSE ExtractPaperInfo(Head(raw_data)) \o CleanWithRulesStopsAtRaise(Tail(raw_data))

\* _clean_with_rules (lines 230-255)
RECURSIVE CleanWithRules(_)
CleanWithRules(raw_data) ==
    IF raw_data = <<>> THEN <<>>
    ELSE ExtractPaperInfo(Head(raw_data)) \o CleanWithRules(Tail(raw_data))

\* _parse_ai_response (lines 440-453): not implemented, returns []
CleanerParseAiResponse(response) == <<>>

\* a variant without the fallback to the rules
CleanWithAiNoFallback(raw_data, ai) == <<>>

\* _clean_with_ai (lines 158-228); ai is how the call of line 199 ended
CleanWithAi(raw_data, ai) ==
    IF ai = "nonempty" THEN CleanerParseAiResponse(ai)
    ELSE CleanWithRules(raw_data)

\* _clean_data (lines 131-156)
CleanData(raw_data, with_ai, ai) ==
    IF raw_data = <<>> THEN <<>>
    ELSE IF with_ai THEN CleanWithAi(raw_data, ai)
    ELSE CleanWithRules(raw_data)

\* a variant that takes an absent file for an empty array
LoadMetadataAbsentIsEmpty(file) ==
    CASE file.kind = "list" -> [loaded |-> TRUE, data |-> file.data]
      [] file.kind = "dict" -> [loaded |-> TRUE, data |-> file.data]
      [] file.kind \in {"absent", "error", "other"} -> [loaded |-> TRUE, data |-> <<>>]
      [] OTHER -> [loaded |-> FALSE, data |-> <<>>]

\* a variant that takes an object with an 'error' key for a record
LoadMetadataErrorIsRecord(file) ==
    CASE file.kind \in {"list", "dict", "error"} -> [loaded |-> TRUE, data |-> file.data]
      [] file.kind = "other" -> [loaded |-> TRUE, data |-> <<>>]
      [] OTHER -> [loaded |-> FALSE, data |-> <<>>]

\* _load_metadata (lines 94-129); loaded is FALSE for None. A file of kind "dict"
\* or "error" is one JSON object, whose fields are those of data[1] if any; an
\* object of kind "error" has an 'error' key besides.
LoadMetadata(file) ==
    CASE file.kind = "list" -> [loaded |-> TRUE, data |-> file.data]
      [] file.kind = "dict" -> [loaded |-> TRUE, data |-> file.data]
      [] file.kind \in {"error", "other"} -> [loaded |-> TRUE, data |-> <<>>]
      [] OTHER -> [loaded |-> FALSE, data |-> <<>>]

\* a variant that adds the array to what the file holds
SaveCleanedDataAppends(files, d, data) ==
    [files EXCEPT ![d] = [exists |-> TRUE, data |-> files[d].data \o data]]

\* _save_cleaned_data (lines 455-486): the new files
SaveCleanedData(files, d, data) ==
    [files EXCEPT ![d] = [exists |-> TRUE, data |-> save_json(data, files[d].data)]]

(* Raw records *)

Name(n) == [kind |-> "str", name |-> n]
NoAuthors == [shape |-> "absent", entries |-> <<>>]

RecGood ==
    [shape |-> "dict", paper |-> "none", id |-> "r1",
     title |-> [kind |-> "str", text |-> <<" ", "T", "\n", "x", " ">>],
     authors |-> [shape |-> "objects",
                  entries |-> <<Name("n1"), [kind |-> "absent", name |-> ""], Name("n2")>>],
     url |-> NoUrl, summary |-> <<"s">>,
     publishedAt |-> "", publishedDate |-> "2025-07-30", published |-> "x"]
RecWrapped ==
    [shape |-> "dict", paper |-> "dict", id |-> "r2",
     title |-> [kind |-> "str", text |-> <<"U">>],
     authors |-> [shape |-> "strings", entries |-> <<Name("n3"), Name("n4")>>],
     url |-> <<"https://hf.co/papers/", "r2">>, summary |-> <<>>,
     publishedAt |-> "2025-07-31T17:00:30.000Z", publishedDate |-> "", published |-> ""]
RecOneAuthor ==
    [RecGood EXCEPT !.id = "r3", !.authors = [shape |-> "string", entries |-> <<Name("n5")>>],
                    !.title = [kind |-> "str", text |-> <<"V">>]]
RecNoId == [RecWrapped EXCEPT !.id = ABSENT]
RecBlankTitle == [RecGood EXCEPT !.id = "r4", !.authors = NoAuthors,
                                 !.title = [kind |-> "str", text |-> <<" ", "\n">>]]
RecNoTitle == [RecGood EXCEPT !.id = "r5", !.title = [kind |-> "absent", text |-> <<>>]]
RecNullTitle == [RecGood EXCEPT !.id = "r6", !.title = [kind |-> "null", text |-> <<>>]]
RecNullPaper == [RecWrapped EXCEPT !.paper = "null"]
RecNotDict == [RecGood EXCEPT !.shape = "string"]
RecBadName ==
    [RecGood EXCEPT !.id = "r7", !.title = [kind |-> "str", text |-> <<"W">>],
                    !.authors = [shape |-> "objects",
                                 entries |-> <<Name("n6"), [kind |-> "number", name |-> "7"]>>]]

RecNoAuthors ==
    [RecWrapped EXCEPT !.id = "r8", !.authors = NoAuthors,
                       !.title = [kind |-> "str", text |-> <<"Y">>]]

RawRecords == {RecGood, RecWrapped, RecOneAuthor, RecNoId, RecBlankTitle, RecNoTitle,
               RecNullTitle, RecNullPaper, RecNotDict, RecBadName, RecNoAuthors}

MetadataFiles ==
    {AbsentMetadata, [kind |-> "unreadable", data |-> <<>>],
     [kind |-> "error", data |-> <<>>], [kind |-> "error", data |-> <<RecGood>>],
     [kind |-> "other", data |-> <<>>]}
    \cup {[kind |-> "dict", data |-> <<r>>] : r \in {RecGood, RecWrapped, RecNoId}}
    \cup {[kind |-> "list", data |-> l] : l \in SeqsUpTo(RawRecords, MaxRecords)}

OldCleaned == [exists |-> TRUE, data |-> ExtractPaperInfo(RecOneAuthor)]

\* DataCleaner.__init__ (lines 28-49) and the files before clean(date)
CleanInit ==
    /\ BatchOff
    /\ SingleOff
    /\ PipelineOff
    /\ \E config_use_ai, client_ok \in BOOLEAN :
          LET c == ConstructCleaner(config_use_ai, client_ok)
          IN  /\ c_use_ai = (c.use_ai /\ c.ai_client # "none")
              /\ client_failed = (config_use_ai /\ ~client_ok)
    /\ c_date \in CleanDates
    /\ metadata \in MetadataFiles
    /\ cleaned \in [CleanDates -> {NoFile, OldCleaned}]
    /\ c_pc = "idle"
    /\ c_return = "none"
    /\ c_ai = "none"
    /\ c_before = cleaned
    /\ c_silent \in BOOLEAN
    /\ c_progress_stop = "none"

\* clean, lines 67-73: the metadata could not be loaded
CleanNotLoaded ==
    /\ c_pc = "idle"
    /\ ~LoadMetadata(metadata).loaded
    /\ c_pc' = "done"
    /\ c_return' = "false"
    /\ UNCHANGED <<batch_vars, pipeline_vars, single_vars, c_before, c_use_ai, c_date, metadata, cleaned, c_ai,
                   c_silent, c_progress_stop>>

\* clean, lines 67-86, with _clean_with_rules
CleanByRules ==
    /\ c_pc = "idle"
    /\ LoadMetadata(metadata).loaded
    /\ ~c_use_ai
    /\ cleaned' = SaveCleanedData(cleaned, c_date,
                     CleanData(LoadMetadata(metadata).data, FALSE, "none"))
    /\ c_pc' = "done"
    /\ c_return' = "true"
    /\ UNCHANGED <<batch_vars, pipeline_vars, single_vars, c_before, c_use_ai, c_date, metadata, c_ai,
                   c_silent, c_progress_stop>>

\* a display that is stopped only when the call returns
CleanerDisplayStoppedOnReturn(is_silent, ai) ==
    IF is_silent \/ ai = "none" THEN "none" ELSE IF ai = "raises" THEN "clear" ELSE "set"

\* _clean_with_ai, lines 188-207: unless silent the display is started before the
\* call and its event is set in the finally of the call, however the call ends;
\* with no raw record (line 142) there is neither call nor display
CleanerDisplay(is_silent, ai) ==
    IF is_silent \/ ai = "none" THEN "none" ELSE "set"

\* clean, lines 67-86, with _clean_with_ai: the call returns a text, returns
\* nothing, or raises
CleanByAi ==
    /\ c_pc = "idle"
    /\ LoadMetadata(metadata).loaded
    /\ c_use_ai
    /\ \E ai \in {"nonempty", "empty", "raises"} :
          /\ c_ai' = IF LoadMetadata(metadata).data = <<>> THEN "none" ELSE ai
          /\ c_progress_stop' =
                CleanerDisplay(c_silent, IF LoadMetadata(metadata).data = <<>> THEN "none" ELSE ai)
          /\ cleaned' = SaveCleanedData(cleaned, c_date,
                           CleanData(LoadMetadata(metadata).data, TRUE, ai))
    /\ c_pc' = "done"
    /\ c_return' = "true"
    /\ UNCHANGED <<batch_vars, pipeline_vars, single_vars, c_before, c_use_ai, c_date, metadata, c_silent>>

CleanNext == CleanNotLoaded \/ CleanByRules \/ CleanByAi

CleanSpec == CleanInit /\ [][CleanNext]_vars

----------------------------------------------------------------------------
(* PipelineRunner (src/run_pipeline.py) and send_feishu_notification *)

MaxCalls == 2

BasicStep == "Basic"         \* 'Basic分析'
AdvancedStep == "Advanced"   \* 'Advanced分析'

\* lines 61-65 and 76-80: the command of a step
StepCommand(mode, run_date, rage_mode, is_silent) ==
    <<"run.py", mode, run_date>>
       \o (IF rage_mode THEN <<"--rageMode">> ELSE <<>>)
       \o (IF is_silent THEN <<"--silent">> ELSE <<>>)

\* a variant that counts a command that raised as a success
RunCommandRaiseIsSuccess(end) == end \in {"zero", "raises"}

\* run_command, lines 31-47: true for exit code 0, false for another exit code
\* and when subprocess.run raises
RunCommand(end) == end = "zero"

CommandEnds == {"zero", "nonzero", "raises"}

\* a variant that reports success as soon as a step has succeeded
SummaryStatusLenient(succeeded) ==
    IF Len(succeeded) >= 1 THEN "success" ELSE "failed"

\* print_summary, lines 100 and 112-122
SummaryStatus(succeeded) ==
    IF Len(succeeded) = 2 THEN "success"
    ELSE IF Len(succeeded) = 1 THEN "warning"
    ELSE "failed"

\* print_summary, lines 183-187: the mark and the date of the title
SummaryTitle(status, run_date) ==
    [mark |-> IF status = "failed" THEN "failed" ELSE "report", date |-> run_date]

\* send_feishu_notification, lines 29-33
Template(status) ==
    IF status \in {"success", "ok", "pass"} THEN "green"
    ELSE IF status \in {"failed", "error", "fail"} THEN "red"
    ELSE "blue"

PostEnds == {"code_zero", "code_other", "raises"}

\* send_feishu_notification, lines 21-93: what it returns, and whether it posted
SendFeishuNotification(webhook, title, status, post) ==
    IF ~webhook
    THEN [title |-> title, status |-> status, template |-> "none", posted |-> FALSE,
          returned |-> FALSE]
    ELSE [title |-> title, status |-> status, template |-> Template(status), posted |-> TRUE,
          returned |-> (post = "code_zero")]

PipelineInit ==
    /\ BatchOff /\ faults = FALSE /\ client_failed = FALSE
    /\ SingleOff
    /\ CleanOff
    /\ FEISHU_WEBHOOK \in BOOLEAN
    /\ success_steps = <<>> /\ failed_steps = <<>>
    /\ p_pc = "idle"
    /\ p_date = "2025-07-31" /\ p_rage_mode = FALSE /\ p_silent = FALSE
    /\ basic_success = "unset" /\ advanced_success = "unset"
    /\ p_return = "none"
    /\ p_calls = 0
    /\ p_commands = <<>> /\ p_summaries = <<>> /\ p_notifications = <<>>

\* run_pipeline is called on the runner, lines 49-58
CallRunPipeline ==
    /\ p_pc \in {"idle", "returned"}
    /\ p_calls < MaxCalls
    /\ p_calls' = p_calls + 1
    /\ p_date' \in CleanDates
    /\ p_rage_mode' \in BOOLEAN
    /\ p_silent' \in BOOLEAN
    /\ p_pc' = "basic"
    /\ basic_success' = "unset" /\ advanced_success' = "unset"
    /\ p_return' = "none"
    /\ p_summaries' = <<>> /\ p_notifications' = <<>>
    /\ UNCHANGED <<batch_vars, single_vars, clean_vars, FEISHU_WEBHOOK, success_steps,
                   failed_steps, p_commands>>

\* run_command(cmd, step_name), lines 26-47, for a command that ends as `end`
RecordStep(cmd, step_name, end) ==
    /\ p_commands' = Append(p_commands, [call |-> p_calls, cmd |-> cmd, step |-> step_name,
                                         end |-> end])
    /\ IF RunCommand(end)
       THEN success_steps' = Append(success_steps, step_name) /\ failed_steps' = failed_steps
       ELSE failed_steps' = Append(failed_steps, step_name) /\ success_steps' = success_steps

\* lines 60-69: the Basic command is run to its end
RunBasic ==
    /\ p_pc = "basic"
    /\ \E end \in CommandEnds :
          /\ RecordStep(StepCommand("basic", p_date, p_rage_mode, p_silent), BasicStep, end)
          /\ basic_success' = IF RunCommand(end) THEN "true" ELSE "false"
          /\ p_pc' = IF RunCommand(end) THEN "advanced" ELSE "summary"
    /\ UNCHANGED <<batch_vars, single_vars, clean_vars, FEISHU_WEBHOOK, p_date, p_rage_mode,
                   p_silent, advanced_success, p_return, p_calls, p_summaries,
                   p_notifications>>

\* lines 74-82: the Advanced command is run to its end
RunAdvanced ==
    /\ p_pc = "advanced"
    /\ \E end \in CommandEnds :
          /\ RecordStep(StepCommand("advanced", p_date, p_rage_mode, p_silent), AdvancedStep, end)
          /\ advanced_success' = IF RunCommand(end) THEN "true" ELSE "false"
    /\ p_pc' = "summary"
    /\ UNCHANGED <<batch_vars, single_vars, clean_vars, FEISHU_WEBHOOK, p_date, p_rage_mode,
                   p_silent, basic_success, p_return, p_calls, p_summaries,
                   p_notifications>>

\* a variant that returns false when the notification was not sent
ReturnValueNeedsNotification(basic, advanced, sent) ==
    IF basic = "true" /\ advanced = "true" /\ sent THEN "true" ELSE "false"

\* lines 68-72 and 84-86: False after a failed Basic, else basic_success and
\* advanced_success; what the notification returned is not read (line 192)
ReturnValue(basic, advanced, sent) ==
    IF basic = "true" /\ advanced = "true" THEN "true" ELSE "false"

\* lines 71-72 and 85-86 with print_summary, lines 88-194: the summary, one call of
\* send_feishu_notification, whose failure is caught, and the return
PrintSummaryAndReturn ==
    /\ p_pc = "summary"
    /\ \E post \in PostEnds :
          LET status == SummaryStatus(success_steps)
              sent == SendFeishuNotification(FEISHU_WEBHOOK, SummaryTitle(status, p_date),
                                             status, post)
          IN  /\ p_summaries' = Append(p_summaries, status)
              /\ p_notifications' = Append(p_notifications, sent)
              /\ p_return' = ReturnValue(basic_success, advanced_success, sent.returned)
    /\ p_pc' = "returned"
    /\ UNCHANGED <<batch_vars, single_vars, clean_vars, FEISHU_WEBHOOK, success_steps,
                   failed_steps, p_date, p_rage_mode, p_silent, basic_success,
                   advanced_success, p_calls, p_commands>>

PipelineNext == CallRunPipeline \/ RunBasic \/ RunAdvanced \/ PrintSummaryAndReturn

PipelineSpec == PipelineInit /\ [][PipelineNext]_vars

----------------------------------------------------------------------------
(* A PaperAnalyzer with its batches, or a DataCleaner with its clean(date) *)

ConstructInit == Init \/ CleanInit

ConstructNext == Next \/ CleanNext

ConstructSpec == ConstructInit /\ [][ConstructNext]_vars

----------------------------------------------------------------------------
(* Helpers of the properties *)

Visited == 1..Len(log)
Running == pc \in {"loop", "attempt", "waiting", "shutdown"}
AssistantOn == use_ai /\ ai_client # "none"
Failed(k) == log[k].kind \in {"none", "raised"}
TimesAnalysed(k) == Cardinality({n \in 1..Len(single_calls) : single_calls[n] = k})
EntriesOf(file, id) ==
    LET Same(r) == ExtractPaperIdFromResult(r) = id IN SelectSeq(file, Same)
LastLog == log[Len(log)]

----------------------------------------------------------------------------
(* C1: in analyze_batch a failed paper (analyze_single returned None or     *)
(* raised) only adds one to the failed count: the loop goes on with the     *)
(* next paper, so every input element is visited in order, and is either    *)
(* skipped or handed to analyze_single exactly once.                        *)
C1_FailureDoesNotAbort ==
    /\ Running => Len(log) = i - 1 /\ i <= Len(papers) + 1
    /\ (pc = "done" /\ papers # <<>>) => Len(log) = Len(papers)
    /\ \A k \in Visited :
          /\ log[k].idx = k
          /\ TimesAnalysed(k) = IF log[k].kind = "skipped" THEN 0 ELSE 1
    /\ pc \in {"loop", "done"} =>
          fail_count = Cardinality({k \in Visited : Failed(k)})

C1_Witness ==
    /\ pc = "done"
    /\ \E k \in Visited : Failed(k) /\ k + 1 \in Visited /\ log[k + 1].kind = "result"

(* C2: with a date, a paper whose id is in the date's store when            *)
(* analyze_batch starts is skipped: it is never handed to analyze_single,   *)
(* each such paper adds one to the skipped count, and the stored entries of *)
(* its id stay as they were.                                                *)
C2_StoredIdSkipped ==
    (date # "" /\ (Running \/ pc = "done")) =>
       /\ \A k \in Visited :
             papers[k].id \in StoreIds(start_store) =>
                /\ log[k].kind = "skipped"
                /\ TimesAnalysed(k) = 0
                /\ EntriesOf(store, papers[k].id) = EntriesOf(start_store, papers[k].id)
       /\ skip_count =
             Cardinality({k \in Visited : papers[k].id \in StoreIds(start_store)})

C2_Witness ==
    /\ date # ""
    /\ pc = "done"
    /\ \E k \in Visited : log[k].kind = "skipped" /\ k > 1 /\ log[k - 1].kind = "result"

(* C3: with a date, when the analysis of the next paper starts (and at any  *)
(* later moment of the run) the store holds an entry for every earlier      *)
(* paper whose analysis succeeded in this run.                              *)
C3_PersistedBeforeNext ==
    (date # "" /\ (Running \/ pc = "done")) =>
       \A k \in Visited :
          log[k].kind = "result" => papers[k].id \in StoreIds(store)

C3_Witness ==
    /\ date # ""
    /\ pc = "attempt"
    /\ i = 2
    /\ log[1].kind = "result"
    /\ papers[1].id \notin StoreIds(start_store)

(* C4: when the process is terminated during analyze_batch, the entry of    *)
(* every completed single-item write (the last one of each id) is in the    *)
(* store, and the next run for the same date and papers skips exactly the   *)
(* papers whose id is in the store at the termination and analyses the      *)
(* others.                                                                  *)
C4_ResumeAfterTermination ==
    /\ (date # "" /\ (Running \/ pc \in {"killed", "done"})) =>
          \A n \in 1..Len(writes) :
             \/ \E k \in 1..Len(store) : store[k] = writes[n]
             \/ \E m \in (n + 1)..Len(writes) :
                   ExtractPaperIdFromResult(writes[m]) = ExtractPaperIdFromResult(writes[n])
    /\ (date # "" /\ run = "second" /\ prev.ended = "killed") =>
          \A k \in Visited :
             IF papers[k].id \in StoreIds(start_store)
             THEN log[k].kind = "skipped" /\ TimesAnalysed(k) = 0
             ELSE log[k].kind # "skipped" /\ TimesAnalysed(k) = 1

C4_Witness ==
    /\ date # ""
    /\ run = "second"
    /\ prev.ended = "killed"
    /\ pc = "done"
    /\ \E k \in Visited : log[k].kind = "skipped" /\ papers[k].id \notin prev.store0_ids
    /\ \E k \in Visited : log[k].kind = "result"

InputIds == {papers[k].id : k \in 1..Len(papers)}
SucceededIds == {papers[k].id : k \in {n \in Visited : log[n].kind = "result"}}
TwoRunsEnded == date # "" /\ run = "second" /\ prev.ended = "done" /\ pc = "done"

(* C5, as claimed: after two runs for the same date and papers the store    *)
(* has as many entries as there are distinct paper ids, and the second      *)
(* run's skipped count is the first run's succeeded count. Stated for the   *)
(* runs that start from an empty store on papers of pairwise distinct ids   *)
(* whose summary is a string, the case most favourable to it.               *)
C5_TwoRunsAsClaimed ==
    (/\ TwoRunsEnded
     /\ prev.store0_ids = {}
     /\ Cardinality(InputIds) = Len(papers)
     /\ \A k \in 1..Len(papers) : ~papers[k].summary_null) =>
       /\ Len(store) = Cardinality(InputIds)
       /\ skip_count = prev.success_count

(* C5, amended: after two runs for the same date and papers the store has   *)
(* exactly one entry for each id that was stored before the first run or    *)
(* whose analysis succeeded in one of the runs; the second run's skipped    *)
(* count is the number of input papers whose id is in the store when the    *)
(* first run ends, which is the first run's succeeded count when the input  *)
(* ids are pairwise distinct and none of them was stored before.            *)
C5_TwoRuns ==
    TwoRunsEnded =>
       /\ \A a, b \in 1..Len(store) :
             a # b => ExtractPaperIdFromResult(store[a]) # ExtractPaperIdFromResult(store[b])
       /\ StoreIds(start_store) = prev.store0_ids \cup prev.succeeded_ids
       /\ StoreIds(store) = StoreIds(start_store) \cup SucceededIds
       /\ skip_count =
             Cardinality({k \in 1..Len(papers) : papers[k].id \in StoreIds(start_store)})
       /\ (Cardinality(InputIds) = Len(papers) /\ InputIds \cap prev.store0_ids = {})
             => skip_count = prev.success_count

C5_Witness ==
    /\ TwoRunsEnded
    /\ Len(papers) = 2
    /\ prev.success_count = 1
    /\ skip_count = 1
    /\ \E k \in Visited : log[k].kind = "result"

(* C6: with the assistant enabled analyze_single issues at most 3 calls for *)
(* one paper, whatever makes an attempt fail; no attempt follows a usable   *)
(* response; and when all attempts fail it returns None after the third,    *)
(* it does not raise.                                                       *)
C6_AtMostThreeAttempts ==
    AssistantOn =>
       /\ chat_calls <= 3
       /\ \A k \in Visited : log[k].kind # "raised"
       /\ (pc = "loop" /\ log # <<>> /\ LastLog.kind # "skipped") =>
             /\ (LastLog.kind = "none" /\ ~LastLog.usable) => chat_calls = 3
             /\ chat_calls >= 1
       /\ pc \in {"attempt", "waiting", "shutdown"} => chat_calls <= attempt + 1

C6_Witness ==
    /\ AssistantOn
    /\ pc = "loop"
    /\ log # <<>>
    /\ LastLog.kind = "none"
    /\ ~LastLog.usable
    /\ chat_calls = 3

(* C7: when an assistant call never returns, the caller is not left waiting *)
(* for it once the deadline has passed.                                     *)
C7_HungCallAbandoned == ~(pc = "shutdown" /\ call = "hung")

(* C8: when every attempt fails for every paper, analyze_batch returns      *)
(* normally with an empty sequence, succeeded = 0 and failed = processed,   *)
(* silent or not.                                                           *)
C8_AllFailReturnsNormally ==
    (/\ pc = "done"
     /\ AssistantOn
     /\ papers # <<>>
     /\ \A k \in Visited : log[k].kind = "skipped" \/ (log[k].kind = "none" /\ ~log[k].usable))
    => /\ outcome = "returned"
       /\ results = <<>>
       /\ success_count = 0
       /\ fail_count = processed_count

\* the results and the store a run must end with, from what happened to each paper
RECURSIVE ExpectedStore(_, _)
ExpectedStore(file, rs) ==
    IF rs = <<>> THEN file
    ELSE ExpectedStore(SaveSingleResult(Head(rs), file, TRUE, TRUE), Tail(rs))

(* C9: the status display has no effect: silent or not, analyze_batch       *)
(* returns normally, and the results and the store are the ones the papers, *)
(* the initial store and the assistant's behaviour determine.               *)
C9_SilentSameOutcome ==
    pc = "done" =>
       /\ outcome = "returned"
       /\ Len(results) = Cardinality({k \in Visited : log[k].kind = "result"})
       /\ store = IF date # "" THEN ExpectedStore(start_store, results) ELSE start_store

(* C10: every AnalysisResult analyze_single returns has a non-empty         *)
(* title_zh and a non-empty summary_zh.                                     *)
C10_NeverEmptyZh ==
    \A n \in 1..Len(results) :
       results[n].title_zh # <<>> /\ results[n].summary_zh # <<>>

C10_Witness ==
    /\ AssistantOn
    /\ \E n \in 1..Len(results) :
          /\ results[n].id = "a"
          /\ results[n].title_zh = <<"A", "2">>
          /\ results[n].summary_zh = WU_ZHAIYAO_XINXI

(* C11: with the assistant disabled or unavailable, analyze_single invokes  *)
(* no assistant call, makes no retry, and returns a result for every paper, *)
(* so analyze_batch counts no failure.                                      *)
C11_DisabledNeverFails ==
    (~AssistantOn /\ (Running \/ pc = "done")) =>
       /\ chat_calls = 0 /\ in_flight = 0 /\ attempt = 0
       /\ \A k \in Visited : ~Failed(k)
       /\ fail_count = 0

(* C12: a failed read or write of the store file during the save of a       *)
(* successful result does not leave _save_single_result: the paper still    *)
(* counts as a success, its result is the next element of the returned      *)
(* sequence, and the loop goes on with the next paper.                      *)
SaveFailed(k) == log[k].saved \in {"read_failed", "write_failed"}

C12_SaveFailureContained ==
    /\ \A k \in Visited : SaveFailed(k) => log[k].kind = "result"
    /\ Len(results) = Cardinality({k \in Visited : log[k].kind = "result"})
    /\ (pc = "loop" /\ log # <<>> /\ SaveFailed(Len(log))) =>
          /\ paper_id(results[Len(results)]) = papers[LastLog.idx].id
          /\ i = LastLog.idx + 1
    /\ pc \in {"loop", "done"} =>
          success_count = Cardinality({k \in Visited : log[k].kind = "result"})
    /\ (pc = "done" /\ papers # <<>>) => Len(log) = Len(papers)

C12_Witness ==
    /\ pc = "done" /\ outcome = "returned"
    /\ Len(log) = 2
    /\ log[1].saved = "write_failed"
    /\ log[2].saved = "read_failed"
    /\ Len(results) = 2

(* C13: analyze_batch is sequential: at most one assistant call is in       *)
(* flight, and none is in flight when the loop is between papers or an      *)
(* attempt is about to be submitted.                                        *)
C13_OneCallAtATime ==
    /\ in_flight <= 1
    /\ pc \in {"idle", "loop", "attempt", "done"} => in_flight = 0

C13_Witness ==
    /\ pc = "waiting" /\ in_flight = 1
    /\ i = 2 /\ log[1].kind = "none" /\ ~log[1].usable
    /\ attempt = 1

(* C14: when analyze_single returns a result and no Chinese summary is      *)
(* available (assistant disabled, or the response gives no summary text),   *)
(* summary_zh is the 'no summary' sentinel if the paper's summary is empty, *)
(* the summary itself if it has at most 200 characters, and its first 200   *)
(* characters followed by "..." if it is longer, on both paths. Stated for  *)
(* papers whose summary is a string.                                        *)
NoChineseSummary ==
    /\ s_outcome = "result"
    /\ ~s_paper.summary_null
    /\ s_enabled => Strip(ParseAiResponse(s_response).summary_zh) = <<>>

ClaimedSummaryZh(summary) ==
    IF summary = <<>> THEN WU_ZHAIYAO_XINXI
    ELSE IF Len(summary) <= 200 THEN summary
    ELSE SubSeq(summary, 1, 200) \o <<".", ".", ".">>

C15_NoLabelsIsResult ==
    (s_enabled /\ s_response = RespNoLabels /\ s_outcome # "pending") =>
       /\ s_outcome = "result"
       /\ s_result.title_zh = s_result.title_en
       /\ s_result.title_en = s_paper.title
       /\ s_result.summary_zh = IF s_paper.summary = ZAN_WU THEN WU_ZHAIYAO_XINXI
                                ELSE ClaimedSummaryZh(s_paper.summary)
       /\ s_result.model_function = ZAN_WU

----------------------------------------------------------------------------
(* Helpers of the properties of the Cleaner *)

RawData == LoadMetadata(metadata).data
CleanedOutput == cleaned[c_date].data
RuleBasedOutput == CleanWithRules(RawData)
IdsOf(items) == [k \in 1..Len(items) |-> items[k].id]

(* C16: when assistant-based cleaning is used and the assistant returns a   *)
(* non-empty response, the cleaned output of clean(date) equals the         *)
(* rule-based output for the same raw records.                              *)
C16_NonEmptyResponseFallsBack ==
    (c_pc = "done" /\ c_ai = "nonempty") =>
       /\ cleaned[c_date].exists
       /\ CleanedOutput = RuleBasedOutput

(* C17: when the assistant call of assistant-based cleaning raises or       *)
(* returns an empty response, the cleaned output equals the rule-based      *)
(* output for the same raw records and clean(date) returns true.            *)
C17_FailedCallFallsBack ==
    (c_pc = "done" /\ c_ai \in {"empty", "raises"}) =>
       /\ cleaned[c_date].exists
       /\ CleanedOutput = RuleBasedOutput
       /\ c_return = "true"

C17_Witness ==
    /\ c_pc = "done" /\ c_ai = "raises"
    /\ c_return = "true"
    /\ IdsOf(CleanedOutput) = <<"r2", "r1">>

(* C18: when the metadata file of the date is absent, clean(date) returns   *)
(* false, raises nothing, and leaves every cleaned file as it was.          *)
C18_AbsentMetadata ==
    [][(c_pc = "idle" /\ metadata.kind = "absent") =>
          (c_pc' = "done" /\ c_return' = "false" /\ cleaned' = cleaned)]_vars

C18_Witness ==
    /\ c_pc = "done" /\ metadata.kind = "absent"
    /\ c_return = "false"
    /\ cleaned[c_date] = OldCleaned

(* C19: rule-based extraction outputs exactly the records that have a       *)
(* non-empty id and a non-empty title after normalisation, one output per   *)
(* such record and in input order, and never more entries than the input.   *)
(* A record that is no object, or whose title is no text, counts as a       *)
(* record without id or title.                                              *)
HasIdAndTitle(item) ==
    /\ item.shape = "dict" /\ item.paper # "null"
    /\ item.id \notin {ABSENT, "", NULL}
    /\ item.title.kind = "str"
    /\ NormaliseTitle(item.title.text) # <<>>

AfterRules == c_pc = "done" /\ ~c_use_ai /\ LoadMetadata(metadata).loaded

C19_ExactlyIdAndTitle ==
    AfterRules =>
       /\ IdsOf(CleanedOutput) = IdsOf(SelectSeq(RawData, HasIdAndTitle))
       /\ Len(CleanedOutput) <= Len(RawData)

(* C19, as the code has it: the output has one entry, in input order, for   *)
(* each record with a non-empty id and a non-empty normalised title whose   *)
(* extraction does not raise; a record with id and title whose author names *)
(* cannot be joined is left out.                                            *)
Extractable(item) == HasIdAndTitle(item) /\ ~ExtractionRaises(item)

C19_ExactlyExtractable ==
    AfterRules =>
       /\ IdsOf(CleanedOutput) = IdsOf(SelectSeq(RawData, Extractable))
       /\ \A k \in 1..Len(CleanedOutput) :
             CleanedOutput[k].title =
                NormaliseTitle(SelectSeq(RawData, Extractable)[k].title.text)
       /\ Len(CleanedOutput) <= Len(RawData)

C19_Witness ==
    /\ AfterRules
    /\ metadata.kind = "list"
    /\ RawData = <<RecBadName, RecGood>>
    /\ IdsOf(CleanedOutput) = <<"r1">>
    /\ CleanedOutput[1].title = <<"T", " ", "x">>

(* C20: in rule-based cleaning a record whose extraction raises is skipped  *)
(* and every other record is cleaned as if the raising record were not      *)
(* there; clean(date) returns true whatever the records are.                *)
NotRaising(item) == ~ExtractionRaises(item)

C20_RaisingRecordSkipped ==
    AfterRules =>
       /\ CleanedOutput = CleanWithRules(SelectSeq(RawData, NotRaising))
       /\ c_return = "true"

C20_Witness ==
    /\ AfterRules
    /\ RawData = <<RecNullPaper, RecWrapped>>
    /\ IdsOf(CleanedOutput) = <<"r2">>
    /\ c_return = "true"

(* C21: after clean(date) has returned true, the cleaned file of the date   *)
(* holds exactly the array this call of _clean_data produced, whatever the  *)
(* file held before, and the cleaned file of every other date is as it was. *)
ProducedByRun == CleanData(RawData, c_use_ai, c_ai)

C21_FullReplace ==
    (c_pc = "done" /\ c_return = "true") =>
       /\ cleaned[c_date] = [exists |-> TRUE, data |-> ProducedByRun]
       /\ \A d \in CleanDates \ {c_date} : cleaned[d] = c_before[d]

C21_Witness ==
    /\ c_pc = "done" /\ c_return = "true"
    /\ c_before[c_date] = OldCleaned
    /\ IdsOf(CleanedOutput) = <<"r1">>
    /\ \E d \in CleanDates \ {c_date} : cleaned[d] = OldCleaned

(* C22: clean(date) treats a metadata file that is a JSON array as that     *)
(* array, a single JSON object without an 'error' key as the array of that  *)
(* one object, and an object with an 'error' key as the empty array; in the *)
(* last case it returns true and the cleaned file holds the empty array.    *)
C22_LoadedShapes ==
    c_pc = "done" =>
       /\ metadata.kind \in {"list", "dict"} =>
             /\ c_return = "true"
             /\ RawData = metadata.data
             /\ cleaned[c_date] =
                   [exists |-> TRUE, data |-> CleanData(metadata.data, c_use_ai, c_ai)]
       /\ metadata.kind = "dict" => Len(RawData) = 1
       /\ metadata.kind = "error" =>
             /\ c_return = "true"
             /\ RawData = <<>>
             /\ cleaned[c_date] = [exists |-> TRUE, data |-> <<>>]

C22_Witness ==
    /\ c_pc = "done" /\ c_return = "true"
    /\ metadata = [kind |-> "error", data |-> <<RecGood>>]
    /\ c_before[c_date] = OldCleaned
    /\ cleaned[c_date] = [exists |-> TRUE, data |-> <<>>]

(* C23: for every raw record with a non-empty id and title whose author     *)
(* names are texts, in a 'paper' envelope or not, the entry that rule-based *)
(* extraction yields has translation equal to the normalised title, url     *)
(* equal to the record's url or, without a 'url' key, to the arXiv template *)
(* applied to the id, authors equal to the names joined with ", " (names of *)
(* the author objects that have one, the strings of a list, or the single   *)
(* string) or to '未知作者' when there is no name, and an empty             *)
(* model_function.                                                          *)
ClaimedNames(authors) ==
    LET Named(e) == e.kind = "str" /\ e.name # ""
    IN  CASE authors.shape = "objects" -> SelectSeq(authors.entries, Named)
          [] authors.shape \in {"strings", "string"} -> authors.entries
          [] OTHER -> <<>>

ClaimedAuthors(authors) ==
    IF ClaimedNames(authors) = <<>> THEN <<"wei", "zhi", "zuo", "zhe">>
    ELSE Join(ClaimedNames(authors))

YieldsClaimedFields(src) ==
    /\ Len(CleanedOutput) = Len(src)
    /\ \A k \in 1..Len(src) :
          /\ CleanedOutput[k].id = src[k].id
          /\ CleanedOutput[k].translation = NormaliseTitle(src[k].title.text)
          /\ CleanedOutput[k].translation = CleanedOutput[k].title
          /\ CleanedOutput[k].url = IF src[k].url = NoUrl
                                    THEN <<"https://arxiv.org/abs/", src[k].id>>
                                    ELSE src[k].url
          /\ CleanedOutput[k].authors = ClaimedAuthors(src[k].authors)
          /\ CleanedOutput[k].model_function = <<>>

IsYmd(s) == Len(s) = 10 /\ MatchesAt(s, 1)
IsIsoTimestamp(s) == Len(s) > 10 /\ MatchesAt(s, 1) /\ s[11] = "T"
HasMatch(s) == \E k \in 1..Len(s) : MatchesAt(s, k)
FirstMatch(s) ==
    LET k == CHOOSE n \in 1..Len(s) :
                /\ MatchesAt(s, n)
                /\ \A m \in 1..(n - 1) : ~MatchesAt(s, m)
    IN  SubSeq(s, k, k + 9)

ClaimedFormat(s) ==
    IF s = <<>> \/ s = ZAN_WU THEN ZAN_WU
    ELSE IF IsIsoTimestamp(s) THEN SubSeq(s, 1, 10)
    ELSE IF IsYmd(s) THEN s
    ELSE IF HasMatch(s) THEN FirstMatch(s)
    ELSE s

C24_FormatAsClaimed ==
    s_outcome = "result" => s_result.publish_date = ClaimedFormat(s_paper.publish_date)

(* C25: the publish_date of every result analyze_single returns is a        *)
(* YYYY-MM-DD string or '暂无', whatever the paper's publish_date is.       *)
C25_DateOrSentinel ==
    s_outcome = "result" => (IsYmd(s_result.publish_date) \/ s_result.publish_date = ZAN_WU)

(* C26: when the assistant client cannot be created, the PaperAnalyzer and  *)
(* the DataCleaner are still constructed, with use_ai off and no client;    *)
(* every later analyze_single takes the assistant-free path and every later *)
(* clean the rule-based one, and no assistant call is ever made.            *)
C26_ConstructionFallback ==
    client_failed =>
       /\ pc # "off" =>
             /\ ~use_ai /\ ai_client = "none"
             /\ pc \notin {"attempt", "waiting", "shutdown"}
             /\ chat_calls = 0 /\ in_flight = 0
             /\ \A k \in Visited : ~log[k].usable
       /\ c_pc # "off" =>
             /\ ~c_use_ai
             /\ c_ai = "none"
             /\ c_pc = "done" /\ c_return = "true" => CleanedOutput = RuleBasedOutput

C26_Witness ==
    /\ client_failed
    /\ pc = "done" /\ run = "second"
    /\ Len(results) = 2
    /\ chat_calls = 0

(* C27: the statistics of analyze_batch account for every paper: between    *)
(* two iterations skipped + processed is the number of papers visited and   *)
(* succeeded + failed is processed; when the loop has ended skipped +       *)
(* succeeded + failed is the input count, and the final statistics (lines   *)
(* 171-189) are computed and the batch returns, whatever the outcomes of    *)
(* the papers and the mode of the batch are.                                *)
CountsAccount ==
    /\ pc \in {"loop", "done"} /\ papers # <<>> =>
          /\ skip_count + processed_count = Len(log)
          /\ success_count + fail_count = processed_count
          /\ skip_count = Cardinality({k \in Visited : log[k].kind = "skipped"})
    /\ (pc = "done" /\ papers # <<>>) =>
          skip_count + success_count + fail_count = Len(papers)

C27_StatisticsAccount ==
    /\ CountsAccount
    /\ pc = "done" => outcome = "returned"

(* C28: the sequence analyze_batch returns holds one result for each paper  *)
(* that was not skipped and whose analysis succeeded, in input order, and   *)
(* nothing for a skipped or failed paper; its length is the succeeded       *)
(* count. The same holds of the sequence built so far between iterations.   *)
SucceededIndices ==
    LET Pick(k) == log[k].kind = "result"
    IN  SelectSeq([k \in 1..Len(log) |-> k], Pick)

C28_ReturnedSequence ==
    pc \in {"loop", "done"} =>
       /\ Len(results) = Len(SucceededIndices)
       /\ Len(results) = success_count
       /\ \A n \in 1..Len(results) :
             /\ results[n].id = papers[SucceededIndices[n]].id
             /\ results[n].title_en = papers[SucceededIndices[n]].title

C28_Witness ==
    /\ pc = "done" /\ outcome = "returned"
    /\ Len(log) = 2
    /\ log[1].kind = "result" /\ log[2].kind = "result"
    /\ papers[1].id # papers[2].id
    /\ IdsOf(results) = <<papers[1].id, papers[2].id>>

(* C29: starting from a store without duplicate ids, after any sequence of  *)
(* single-result saves the store holds at most one entry for each id: the   *)
(* save of a result whose id is present replaces the entry of that id.      *)
NoDuplicateIds(file) ==
    \A j, k \in 1..Len(file) :
       j # k => ExtractPaperIdFromResult(file[j]) # ExtractPaperIdFromResult(file[k])

C29_NoDuplicateIds ==
    /\ pc # "reported" => NoDuplicateIds(store)
    /\ (writes # <<>> /\ pc \in {"loop", "done"}) => store[Len(store)] = writes[Len(writes)]

C29_Witness ==
    /\ pc = "done"
    /\ Len(writes) = 2
    /\ writes[1].id = writes[2].id
    /\ writes[1] # writes[2]
    /\ Len(EntriesOf(store, writes[2].id)) = 1
    /\ store[Len(store)] = writes[2]

(* C30: a save never removes or changes a stored entry of another id: the   *)
(* entries the file held when the batch started whose id no save of the     *)
(* batch has written are all still there, unchanged and in the same order,  *)
(* also when reads and writes of the file may fail.                         *)
WrittenIds == {writes[k].id : k \in 1..Len(writes)}

C30_OtherEntriesKept ==
    LET Untouched(r) == ExtractPaperIdFromResult(r) \notin WrittenIds
    IN  pc \in {"loop", "done"} => SelectSeq(store, Untouched) = SelectSeq(start_store, Untouched)

(* C31: within one call of analyze_batch with a date, once the result of a  *)
(* paper has been saved, a later input paper with the same id is skipped:   *)
(* it is not handed to analyze_single and the saved entry is not written    *)
(* again.                                                                   *)
C31_SavedIdSkippedInRun ==
    (date # "" /\ (Running \/ pc = "done")) =>
       /\ \A j, k \in Visited :
             (j < k /\ papers[j].id = papers[k].id /\ log[j].saved = "yes") =>
                log[k].kind = "skipped"
       /\ \A m, n \in 1..Len(writes) : m # n => writes[m].id # writes[n].id


(* C32 as stated: a failed analysis writes nothing to the store, and a       *)
(* paper whose analysis failed in the first run is analysed again, not       *)
(* skipped, by the next run for the same date.                               *)
C32_FailedPaperAnalysedAgain ==
    /\ (date # "" /\ (Running \/ pc = "done")) =>
          \A k \in Visited : Failed(k) => log[k].saved = "no"
    /\ (date # "" /\ run = "second" /\ prev.ended = "done") =>
          \A k \in Visited : k \in prev.failed_idx => log[k].kind # "skipped"

(* C32: a failed analysis writes nothing to the store; the next run for the  *)
(* same date skips exactly the papers whose id was in the store before the   *)
(* first run or was saved by a succeeded analysis of the first run, and      *)
(* hands every other paper, the failed ones included, to analyze_single      *)
(* again.                                                                    *)
C32_FailedNeverStored ==
    /\ (date # "" /\ (Running \/ pc = "done")) =>
          /\ \A k \in Visited : Failed(k) => log[k].saved = "no"
          /\ Len(writes) = Cardinality({k \in Visited : log[k].saved = "yes"})
    /\ (date # "" /\ run = "second" /\ prev.ended = "done") =>
          \A k \in Visited :
             /\ log[k].kind = "skipped" <=>
                   papers[k].id \in (prev.store0_ids \cup prev.succeeded_ids)
             /\ (k \in prev.failed_idx /\ papers[k].id \notin prev.succeeded_ids) =>
                   TimesAnalysed(k) = 1

C32_Witness ==
    /\ date # ""
    /\ run = "second"
    /\ prev.ended = "done"
    /\ pc = "done"
    /\ \E k \in Visited : k \in prev.failed_idx /\ log[k].kind = "result"
    /\ \E k \in Visited : log[k].kind = "skipped" /\ papers[k].id \in prev.succeeded_ids


(* C33: after save_daily_report has written the report built from the       *)
(* return value of analyze_batch for a date, every id that had an entry in  *)
(* that date's report file before the batch still has an entry in the file. *)
C33_ReportKeepsEarlierEntries ==
    (pc = "reported") =>
       \A n \in 1..Len(start_store) :
          ExtractPaperIdFromResult(start_store[n]) \in StoreIds(store)


Analysed == {k \in Visited : log[k].kind # "skipped"}

(* C34: unless silent, the stop event of the display started for an attempt *)
(* is clear only while the caller waits for the result of that attempt's    *)
(* call: it is set when the attempt has ended by a response, an empty       *)
(* response, an exception or the timeout, so it is set when the next        *)
(* attempt or the next paper starts and when the batch ends; the event of   *)
(* the cleaner's display is set when its call has ended; a silent call      *)
(* starts no display.                                                       *)
C34_DisplaySignalled ==
    /\ silent => progress_stop = "none"
    /\ (~silent /\ pc = "waiting") => progress_stop = "clear"
    /\ (~silent /\ pc = "shutdown") => progress_stop = "set"
    /\ (~silent /\ pc = "attempt") =>
          /\ progress_stop # "clear"
          /\ attempt > 0 => progress_stop = "set"
    /\ (~silent /\ pc \in {"loop", "done", "reported"}) =>
          /\ progress_stop # "clear"
          /\ (AssistantOn /\ Analysed # {}) => progress_stop = "set"
    /\ (c_pc = "done") =>
          /\ c_progress_stop # "clear"
          /\ (~c_silent /\ c_ai # "none") => c_progress_stop = "set"
          /\ c_silent => c_progress_stop = "none"

C34_Witness ==
    /\ ~silent
    /\ pc = "attempt"
    /\ attempt > 0
    /\ Len(log) > 0
    /\ progress_stop = "set"


OfThisCall(c) == c.call = p_calls
ThisCall == SelectSeq(p_commands, OfThisCall)
EndedZero(c) == c.end = "zero"
EndedOtherwise(c) == c.end # "zero"
StepsOf(cs) == [k \in 1..Len(cs) |-> cs[k].step]
BothSucceeded ==
    /\ Len(ThisCall) = 2
    /\ ThisCall[1].step = BasicStep /\ ThisCall[1].end = "zero"
    /\ ThisCall[2].step = AdvancedStep /\ ThisCall[2].end = "zero"
NoneSucceeded == \A k \in 1..Len(ThisCall) : ThisCall[k].end # "zero"

(* C35: run_pipeline runs the Advanced command only after the Basic command *)
(* of the same call has ended with exit code 0; if Basic ends otherwise or   *)
(* raises, no Advanced command is run and the call returns false; the call   *)
(* returns true exactly when both commands ended with exit code 0; every     *)
(* command run adds its step to exactly one of success_steps and             *)
(* failed_steps.                                                             *)
C35_AdvancedOnlyAfterBasic ==
    /\ \A k \in 1..Len(ThisCall) :
          /\ ThisCall[k].step = AdvancedStep =>
                (k = 2 /\ ThisCall[1].step = BasicStep /\ ThisCall[1].end = "zero")
          /\ ThisCall[k].step = BasicStep => k = 1
    /\ Len(ThisCall) <= 2
    /\ (p_pc = "advanced") => (basic_success = "true" /\ Len(ThisCall) = 1)
    /\ (p_pc = "returned") =>
          /\ Len(ThisCall) >= 1
          /\ ThisCall[1].end # "zero" => (Len(ThisCall) = 1 /\ p_return = "false")
          /\ ThisCall[1].end = "zero" => Len(ThisCall) = 2
          /\ p_return = "true" <=> BothSucceeded
          /\ p_return \in {"true", "false"}
    /\ success_steps = StepsOf(SelectSeq(p_commands, EndedZero))
    /\ failed_steps = StepsOf(SelectSeq(p_commands, EndedOtherwise))

C35_Witness ==
    /\ p_pc = "returned"
    /\ Len(ThisCall) = 1
    /\ ThisCall[1].end = "raises"
    /\ p_return = "false"
    /\ failed_steps = <<BasicStep>>

====
